---- MODULE Spec2Model ----
(***************************************************************************)
(* Client-side orchestration of the AI memory app: the chat state machine  *)
(* of ChatInterface.jsx (handleSend, typewriterEffect), the delayed graph  *)
(* refresh of App.jsx (handleGraphUpdate) and the snapshot fetch of        *)
(* KnowledgeGraph.jsx (fetchGraph and its effect).                         *)
(*                                                                         *)
(* Strings are sequences of one-character strings, so that trim, the      *)
(* character-wise reveal and concatenation are computed, not assumed.      *)
(* A nullable value is a sequence of length 0 (null/undefined) or 1.       *)
(***************************************************************************)
EXTENDS Integers, Sequences, FiniteSets, TLC

\* ---------------------------------------------------------------- bounds
MaxSends == 2        \* accepted submits (POST /chat requests) per behaviour
MaxRejects == 1      \* calls of handleSend that return early, per behaviour
MaxInputLen == 1     \* longest text typed into the textarea
MaxAdvances == 2     \* steps of the clock per behaviour
MaxPainted == 2      \* nodes painted per behaviour

\* ------------------------------------------------------ program constants
TickMs == 20         \* setInterval period of the typewriter
RefreshDelayMs == 500 \* setTimeout delay of handleGraphUpdate

\* ------------------------------------------------------------ value sets
NoSession == "null"
SessionIds == {"session_1"}
Actions == {"add_fact", "ask_question"}
InputChars == {"a", " "}
Whitespace == {" "}

RECURSIVE SeqsUpTo(_, _)
SeqsUpTo(S, n) ==
    IF n = 0 THEN {<<>>}
    ELSE LET shorter == SeqsUpTo(S, n - 1)
         IN  shorter \cup {Append(s, c) : s \in shorter, c \in S}

Inputs == SeqsUpTo(InputChars, MaxInputLen)

\* what POST /chat can answer: {action, response, details}
ResponseTexts == {<<>>, <<"o", "k">>}
NoDetails == <<>>
SomeDetails == <<[nodes_created |-> 1, edges_created |-> 1]>>
ChatReplies ==
    { [action |-> "add_fact", response |-> <<"o", "k">>, details |-> SomeDetails],
      [action |-> "add_fact", response |-> <<>>, details |-> NoDetails],
      [action |-> "ask_question", response |-> <<"o", "k">>, details |-> NoDetails],
      [action |-> "ask_question", response |-> <<>>, details |-> SomeDetails] }

\* what a failed POST /chat rejects with: error.response?.data?.detail, error.message
NoDetail == <<>>
ChatErrors ==
    { [detail |-> NoDetail, message |-> <<"n">>],
      [detail |-> <<<<"d">>>>, message |-> <<"m">>],
      [detail |-> <<<<>>>>, message |-> <<"n">>] }

TimeSteps == {TickMs, RefreshDelayMs}

\* the key events the textarea hands to handleKeyPress: e.key, e.shiftKey, and
\* e.ctrlKey for the modifiers handleKeyPress does not look at
NoEvent == [key |-> "none", shiftKey |-> FALSE, ctrlKey |-> FALSE]
Click == [key |-> "click", shiftKey |-> FALSE, ctrlKey |-> FALSE]
KeyEvents ==
    { [key |-> "Enter", shiftKey |-> FALSE, ctrlKey |-> FALSE],
      [key |-> "Enter", shiftKey |-> TRUE, ctrlKey |-> FALSE],
      [key |-> "Enter", shiftKey |-> FALSE, ctrlKey |-> TRUE],
      [key |-> "a", shiftKey |-> FALSE, ctrlKey |-> FALSE] }

\* the palette of KnowledgeGraph
Groups == {"Person", "Project", "Technology", "Company", "Location", "Entity"}
TYPE_COLORS ==
    [g \in Groups |->
        CASE g = "Person" -> "#ff6b6b"
          [] g = "Project" -> "#4ecdc4"
          [] g = "Technology" -> "#45b7d1"
          [] g = "Company" -> "#a29bfe"
          [] g = "Location" -> "#55efc4"
          [] g = "Entity" -> "#95a5a6"]

\* the nodes GET /graph can hold, by what the painting looks at: group is one of
\* the palette, a label outside it, or missing; isGlobal is true, false or missing
GraphNodes ==
    {[group |-> g, isGlobal |-> b] :
        g \in {<<>>} \cup {<<x>> : x \in Groups \cup {"Event"}},
        b \in {<<>>, <<TRUE>>, <<FALSE>>}}

\* the zoom factors force-graph hands to nodeCanvasObject
GlobalScales == {1, 2}

\* what link.source and link.target can be when linkCanvasObject is called: the
\* node object the layout has bound the link to, or the value the snapshot
\* came with, a node id, null, or nothing
LinkEnds ==
    { [kind |-> "node", x |-> 0, y |-> 0],
      [kind |-> "node", x |-> 4, y |-> 2],
      [kind |-> "id", x |-> 0, y |-> 0],
      [kind |-> "null", x |-> 0, y |-> 0],
      [kind |-> "undefined", x |-> 0, y |-> 0] }

GraphLinks == {[source |-> a, target |-> b, name |-> "KNOWS"] : a, b \in LinkEnds}

\* ----------------------------------------------------------------- state
VARIABLES
    sessionId,         \* App: useState(null)
    refreshKey,        \* App: useState(0)
    refreshTimers,     \* App: pending setTimeout callbacks of handleGraphUpdate
    messages,          \* ChatInterface: useState([])
    input,             \* ChatInterface: useState('')
    isLoading,         \* ChatInterface: useState(false)
    streamingMessage,  \* ChatInterface: useState(null)
    actionType,        \* ChatInterface: useState('ask_question')
    chatCalls,         \* handleSend activations suspended at await api.post
    reveals,           \* running typewriter intervals with their closures
    graphData,         \* KnowledgeGraph: useState({nodes: [], links: []})
    fetches,           \* fetchGraph activations suspended at await axios.get
    store,             \* the backing store: the add_fact writes it has taken
    now,               \* Date.now() and the timer clock, in milliseconds
    rejects,           \* the handleSend calls that returned early: what each one saw
    failures,          \* the POST /chat requests that failed, by number
    sent,              \* number of POST /chat requests issued so far
    fetched,           \* number of GET /graph requests issued so far
    notified,          \* onGraphUpdate calls so far: the reply and the time of each
    refreshed,         \* the replies whose delayed increment of refreshKey has run
    snapshotFrom,      \* the fetch graphData came from: the reply that caused it,
                       \* 0 for the fetch at mount, -1 for the initial empty graph
    advances,          \* number of steps the clock has taken
    applied,           \* the body of the last GET /graph response fetchGraph took over
    logged,            \* number of console.error calls of fetchGraph
    arrivals,          \* the responses that held nodes and links, each with its fetch, as they arrived
    mounted,           \* App and its children are mounted
    event,             \* the last click or key event that led to a call of handleSend
    canvas,            \* what nodeCanvasObject has painted, node by node
    linkCanvas         \* what each call of linkCanvasObject has done, link by link

vars == <<sessionId, refreshKey, refreshTimers, messages, input, isLoading,
          streamingMessage, actionType, chatCalls, reveals, graphData, fetches,
          store, now, rejects, failures, sent, fetched, notified, refreshed, snapshotFrom,
          advances, applied, logged, arrivals, mounted, event, canvas,
          linkCanvas>>

appVars == <<sessionId, refreshKey, refreshTimers>>
chatVars == <<messages, input, isLoading, streamingMessage, actionType, chatCalls, reveals>>
graphVars == <<graphData, fetches, fetched, snapshotFrom, applied, logged, arrivals>>
uiVars == <<mounted, event, canvas, linkCanvas>>

\* ------------------------------------------------------------ pure parts
\* String.prototype.trim
RECURSIVE TrimStart(_)
TrimStart(s) ==
    IF s # <<>> /\ Head(s) \in Whitespace THEN TrimStart(Tail(s)) ELSE s

RECURSIVE TrimEnd(_)
TrimEnd(s) ==
    IF s # <<>> /\ s[Len(s)] \in Whitespace THEN TrimEnd(SubSeq(s, 1, Len(s) - 1)) ELSE s

Trim(s) == TrimEnd(TrimStart(s))

\* the condition of the early return of handleSend: !input.trim() || isLoading
MutRejectsNothing(text, busy) == FALSE

MutRejectsBlankAndBusy(text, busy) == Trim(text) = <<>> /\ busy

Rejects(text, busy) == Trim(text) = <<>> \/ busy

\* the optimistic update of handleSend: the user message is appended, the input
\* cleared and isLoading set, before the request is issued
UserMessage(t, text) == [id |-> t, type |-> "user", content |-> text]

MutUpdateNotBusy(msgs, text, t) ==
    [messages |-> Append(msgs, UserMessage(t, text)), input |-> <<>>, isLoading |-> FALSE]

MutUpdatePrepends(msgs, text, t) ==
    [messages |-> <<UserMessage(t, text)>> \o msgs, input |-> <<>>, isLoading |-> TRUE]

OptimisticUpdate(msgs, text, t) ==
    [messages |-> Append(msgs, UserMessage(t, text)), input |-> <<>>, isLoading |-> TRUE]

\* overrideActionType || actionType
SelectedAction(overrideActionType, current) ==
    IF overrideActionType # <<>> THEN overrideActionType[1] ELSE current

\* messages.map(msg => ({role: msg.type === 'user' ? 'user' : 'model', content: msg.content}))
MutHistoryRoleIsType(msgs) ==
    [i \in 1..Len(msgs) |-> [role |-> msgs[i].type, content |-> msgs[i].content]]

History(msgs) ==
    [i \in 1..Len(msgs) |->
        [role |-> IF msgs[i].type = "user" THEN "user" ELSE "model",
         content |-> msgs[i].content]]

\* `Error: ${error.response?.data?.detail || error.message}`
MutErrorContentMessageOnly(error) == <<"E", ":", " ">> \o error.message

ErrorContent(error) ==
    <<"E", ":", " ">> \o
        (IF error.detail # NoDetail /\ error.detail[1] # <<>>
         THEN error.detail[1] ELSE error.message)

\* the errorMessage object of the catch block
MutErrorMessageAsReply(t, error) ==
    [id |-> t, type |-> "assistant", content |-> ErrorContent(error), isError |-> TRUE,
     action |-> "ask_question", details |-> <<>>]

ErrorMessage(t, error) ==
    [id |-> t, type |-> "assistant", content |-> ErrorContent(error), isError |-> TRUE]

\* the tempMessage object typewriterEffect starts from
TempMessage(t) == [id |-> t, type |-> "assistant", content |-> <<>>, isStreaming |-> TRUE]

\* the object the reveal callback appends: {...completedMessage, isStreaming: false, action, details}
MutCompletedStillStreaming(tempMessage, action, details) ==
    [id |-> tempMessage.id, type |-> tempMessage.type, content |-> tempMessage.content,
     isStreaming |-> tempMessage.isStreaming, action |-> action, details |-> details]

Completed(tempMessage, action, details) ==
    [id |-> tempMessage.id, type |-> tempMessage.type, content |-> tempMessage.content,
     isStreaming |-> FALSE, action |-> action, details |-> details]

\* the character the interval callback appends: text[index], counted from 0
MutNextCharAfterIncrement(text, index) ==
    IF index + 2 <= Len(text) THEN text[index + 2] ELSE "undefined"

NextChar(text, index) == text[index + 1]

\* the interval callback's test: index < text.length
MutMoreToRevealOffByOne(index, text) == index < Len(text) - 1

MoreToReveal(index, text) == index < Len(text)

\* the reveal callback's test: action === 'add_fact' && onGraphUpdate
MutNotifiesAlways(action) == TRUE

NotifiesGraph(action) == action = "add_fact"

\* response.data.nodes && response.data.links
MutHasNodesOnly(data) == "nodes" \in DOMAIN data

HasNodesAndLinks(data) == "nodes" \in DOMAIN data /\ "links" \in DOMAIN data

\* what GET /graph can answer while the store holds the writes W: the store is
\* eventually consistent, so any part of W may be readable; a body may lack
\* links, or nodes
GraphReplies(W) ==
    {[nodes |-> V, links |-> V] : V \in SUBSET W} \cup {[nodes |-> W], [links |-> W]}

\* fetchGraph up to its await: one GET /graph scoped to the session
MutFetchGraphNoSession(inflight, n, session, cause) ==
    inflight \cup {[fid |-> n + 1, session_id |-> NoSession, cause |-> cause]}

FetchGraph(inflight, n, session, cause) ==
    inflight \cup {[fid |-> n + 1, session_id |-> session, cause |-> cause]}

\* handleGraphUpdate: setTimeout(() => setRefreshKey(k => k + 1), 500)
MutHandleGraphUpdateAtOnce(rid) ==
    /\ refreshKey' = refreshKey + 1
    /\ refreshed' = refreshed \cup {rid}
    /\ fetches' = FetchGraph(fetches, fetched, sessionId, rid)
    /\ fetched' = fetched + 1
    /\ UNCHANGED refreshTimers

MutHandleGraphUpdateShort(rid) ==
    /\ refreshTimers' = refreshTimers \cup {[rid |-> rid, due |-> now + TickMs]}
    /\ UNCHANGED <<refreshKey, refreshed, fetches, fetched>>

HandleGraphUpdate(rid) ==
    /\ refreshTimers' = refreshTimers \cup {[rid |-> rid, due |-> now + RefreshDelayMs]}
    /\ UNCHANGED <<refreshKey, refreshed, fetches, fetched>>

\* TYPE_COLORS[node.group] || TYPE_COLORS.Entity
FillColor(node) ==
    IF node.group # <<>> /\ node.group[1] \in DOMAIN TYPE_COLORS
    THEN TYPE_COLORS[node.group[1]]
    ELSE TYPE_COLORS["Entity"]

\* node.isGlobal ? '#ffd700' : '#2ecc71'
MutBorderColorAlwaysSession(node) == "#2ecc71"

BorderColor(node) == IF node.isGlobal = <<TRUE>> THEN "#ffd700" ELSE "#2ecc71"

\* node.isGlobal ? 2 : 1
BorderWidth(node) == IF node.isGlobal = <<TRUE>> THEN 2 ELSE 1

\* the typeof operator of JavaScript, on what a link end can be
TypeOf(value) ==
    CASE value.kind = "node" -> "object"
      [] value.kind = "null" -> "object"
      [] value.kind = "id" -> "string"
      [] value.kind = "undefined" -> "undefined"

\* typeof start !== 'object' || typeof end !== 'object'
Unbound(start, end) == TypeOf(start) # "object" \/ TypeOf(end) # "object"

\* {x: start.x + (end.x - start.x) / 2, y: start.y + (end.y - start.y) / 2}
TextPos(start, end) ==
    [x |-> start.x + (end.x - start.x) \div 2, y |-> start.y + (end.y - start.y) \div 2]

\* ---------------------------------------------------------------- actions
Init ==
    /\ sessionId = NoSession
    /\ refreshKey = 0
    /\ refreshTimers = {}
    /\ messages = <<>>
    /\ input = <<>>
    /\ isLoading = FALSE
    /\ streamingMessage = <<>>
    /\ actionType = "ask_question"
    /\ chatCalls = {}
    /\ reveals = {}
    /\ graphData = [nodes |-> {}, links |-> {}]
    /\ fetches = {}
    /\ store = {}
    /\ now = 0
    /\ rejects = <<>>
    /\ failures = {}
    /\ sent = 0
    /\ fetched = 0
    /\ notified = {}
    /\ refreshed = {}
    /\ snapshotFrom = -1
    /\ advances = 0
    /\ applied = <<>>
    /\ logged = 0
    /\ arrivals = <<>>
    /\ mounted = TRUE
    /\ event = NoEvent
    /\ canvas = <<>>
    /\ linkCanvas = <<>>

\* App's mount effect mints the session id; ChatInterface and KnowledgeGraph are
\* rendered only then, and KnowledgeGraph's effect issues the first fetch
AppMount ==
    /\ mounted
    /\ sessionId = NoSession
    /\ \E s \in SessionIds : sessionId' = s
    /\ fetches' = FetchGraph(fetches, fetched, sessionId', 0)
    /\ fetched' = fetched + 1
    /\ UNCHANGED <<refreshKey, refreshTimers, chatVars, graphData, snapshotFrom,
                   applied, logged, store, now, advances, rejects, failures, sent,
                   notified, refreshed>>
    /\ UNCHANGED <<arrivals, uiVars>>

\* textarea onChange; the textarea is disabled while isLoading
SetInput(v) ==
    /\ mounted
    /\ sessionId # NoSession
    /\ ~isLoading
    /\ sent < MaxSends
    /\ v # input
    /\ input' = v
    /\ UNCHANGED <<appVars, messages, isLoading, streamingMessage, actionType,
                   chatCalls, reveals, graphVars, store, now, advances, rejects, failures, sent,
                   notified, refreshed>>
    /\ UNCHANGED uiVars

\* the two action buttons; both are disabled while isLoading
SetActionType(a) ==
    /\ mounted
    /\ sessionId # NoSession
    /\ ~isLoading
    /\ sent < MaxSends
    /\ a # actionType
    /\ actionType' = a
    /\ UNCHANGED <<appVars, messages, isLoading, streamingMessage, input,
                   chatCalls, reveals, graphVars, store, now, advances, rejects, failures, sent,
                   notified, refreshed>>
    /\ UNCHANGED uiVars

\* handleSend up to await api.post('/chat', ...); the caller says which event it was
HandleSend(overrideActionType) ==
    /\ mounted
    /\ sessionId # NoSession
    /\ IF Rejects(input, isLoading)
       THEN /\ Len(rejects) < MaxRejects
            /\ rejects' = Append(rejects, [busy |-> isLoading, text |-> input])
            /\ UNCHANGED <<messages, input, isLoading, chatCalls, sent>>
       ELSE /\ sent < MaxSends
            /\ UNCHANGED rejects
            /\ LET update == OptimisticUpdate(messages, input, now)
               IN  /\ messages' = update.messages
                   /\ input' = update.input
                   /\ isLoading' = update.isLoading
            /\ chatCalls' = chatCalls \cup
                   {[rid |-> sent + 1,
                     message |-> input,
                     action_type |-> SelectedAction(overrideActionType, actionType),
                     history |-> History(messages),
                     session_id |-> sessionId]}
            /\ sent' = sent + 1
    /\ UNCHANGED <<appVars, streamingMessage, actionType, reveals, graphVars,
                   store, now, advances, failures, notified, refreshed>>
    /\ UNCHANGED <<mounted, canvas, linkCanvas>>

\* handleSend() without an argument: overrideActionType = null
NoOverride == <<>>

\* the send button: onClick={() => handleSend()}, disabled={isLoading || !input.trim()}
SendButton ==
    /\ ~(isLoading \/ Trim(input) = <<>>)
    /\ HandleSend(NoOverride)
    /\ event' = Click

\* handleKeyPress: e.key === 'Enter' && !e.shiftKey
MutSubmitsOnAnyEnter(e) == e.key = "Enter"

Submits(e) == e.key = "Enter" /\ ~e.shiftKey

\* onKeyPress of the textarea, which is disabled while isLoading; a key that does
\* not submit is left to the textarea
HandleKeyPress(e) ==
    /\ mounted
    /\ sessionId # NoSession
    /\ ~isLoading
    /\ event' = e
    /\ IF Submits(e)
       THEN HandleSend(NoOverride)
       ELSE UNCHANGED <<appVars, chatVars, graphVars, store, now, advances, rejects,
                        failures, sent, notified, refreshed, mounted, canvas,
                        linkCanvas>>

\* handleSend after the await, POST /chat answered: typewriterEffect starts, then finally
MutChatReplyNotifiesAtArrival(call, data) ==
    /\ call \in chatCalls
    /\ chatCalls' = chatCalls \ {call}
    /\ store' = IF data.action = "add_fact" THEN store \cup {call.rid} ELSE store
    /\ LET tempMessage == TempMessage(now)
       IN  /\ streamingMessage' = <<tempMessage>>
           /\ reveals' = reveals \cup
                  {[rid |-> call.rid, tempMessage |-> tempMessage, text |-> data.response,
                    action_type |-> call.action_type, index |-> 0, ticks |-> 0,
                    action |-> "ask_question", details |-> data.details,
                    due |-> now + TickMs]}
    /\ isLoading' = FALSE
    /\ IF NotifiesGraph(data.action)
       THEN /\ notified' = notified \cup {[rid |-> call.rid, at |-> now]}
            /\ HandleGraphUpdate(call.rid)
            /\ UNCHANGED sessionId
       ELSE UNCHANGED <<appVars, fetches, fetched, notified, refreshed>>
    /\ UNCHANGED <<messages, input, actionType, graphData, snapshotFrom, applied, logged,
                   arrivals, now, advances, rejects, failures, sent>>
    /\ UNCHANGED uiVars

MutChatReplyTrustsHint(call, data) ==
    /\ call \in chatCalls
    /\ chatCalls' = chatCalls \ {call}
    /\ store' = IF data.action = "add_fact" THEN store \cup {call.rid} ELSE store
    /\ LET tempMessage == TempMessage(now)
       IN  /\ streamingMessage' = <<tempMessage>>
           /\ reveals' = reveals \cup
                  {[rid |-> call.rid, tempMessage |-> tempMessage, text |-> data.response,
                    action_type |-> call.action_type, index |-> 0, ticks |-> 0,
                    action |-> call.action_type, details |-> data.details,
                    due |-> now + TickMs]}
    /\ isLoading' = FALSE
    /\ UNCHANGED <<appVars, messages, input, actionType, graphVars, now, advances, rejects,
                   failures, sent, notified, refreshed>>
    /\ UNCHANGED uiVars

ChatReply(call, data) ==
    /\ call \in chatCalls
    /\ chatCalls' = chatCalls \ {call}
    /\ store' = IF data.action = "add_fact" THEN store \cup {call.rid} ELSE store
    /\ LET tempMessage == TempMessage(now)
       IN  /\ streamingMessage' = <<tempMessage>>
           /\ reveals' = reveals \cup
                  {[rid |-> call.rid, tempMessage |-> tempMessage, text |-> data.response,
                    action_type |-> call.action_type, index |-> 0, ticks |-> 0, action |-> data.action, details |-> data.details,
                    due |-> now + TickMs]}
    /\ isLoading' = FALSE
    /\ UNCHANGED <<appVars, messages, input, actionType, graphVars, now, advances, rejects, failures,
                   sent, notified, refreshed>>
    /\ UNCHANGED uiVars

\* handleSend after the await, POST /chat failed: catch, then finally
MutChatFailureStaysBusy(call, error) ==
    /\ call \in chatCalls
    /\ chatCalls' = chatCalls \ {call}
    /\ messages' = Append(messages, ErrorMessage(now, error))
    /\ failures' = failures \cup {call.rid}
    /\ UNCHANGED <<appVars, input, isLoading, streamingMessage, actionType, reveals,
                   graphVars, store, now, advances, rejects, sent, notified, refreshed>>
    /\ UNCHANGED uiVars

MutChatFailureRetries(call, error) ==
    /\ call \in chatCalls
    /\ sent < MaxSends
    /\ chatCalls' = (chatCalls \ {call}) \cup {[call EXCEPT !.rid = sent + 1]}
    /\ sent' = sent + 1
    /\ messages' = Append(messages, ErrorMessage(now, error))
    /\ failures' = failures \cup {call.rid}
    /\ UNCHANGED <<appVars, input, isLoading, streamingMessage, actionType, reveals,
                   graphVars, store, now, advances, rejects, notified, refreshed>>
    /\ UNCHANGED uiVars

ChatFailure(call, error) ==
    /\ call \in chatCalls
    /\ chatCalls' = chatCalls \ {call}
    /\ messages' = Append(messages, ErrorMessage(now, error))
    /\ isLoading' = FALSE
    /\ failures' = failures \cup {call.rid}
    /\ UNCHANGED <<appVars, input, streamingMessage, actionType, reveals, graphVars,
                   store, now, advances, rejects, sent, notified, refreshed>>
    /\ UNCHANGED uiVars

\* one firing of the interval callback of typewriterEffect
MutTypewriterTickNeverEnds(v) ==
    /\ v \in reveals
    /\ now >= v.due
    /\ IF MoreToReveal(v.index, v.text)
       THEN LET tempMessage ==
                    [v.tempMessage EXCEPT !.content = Append(@, NextChar(v.text, v.index))]
            IN  /\ streamingMessage' = <<tempMessage>>
                /\ reveals' = (reveals \ {v}) \cup
                       {[v EXCEPT !.tempMessage = tempMessage,
                                  !.index = v.index + 1,
                                  !.ticks = v.ticks + 1,
                                  !.due = v.due + TickMs]}
       ELSE UNCHANGED <<streamingMessage, reveals>>
    /\ UNCHANGED <<messages, appVars, fetches, fetched, notified, refreshed>>
    /\ UNCHANGED <<input, isLoading, actionType, chatCalls, graphData, snapshotFrom,
                   applied, logged, store, now, advances, rejects, failures, sent>>
    /\ UNCHANGED <<arrivals, uiVars>>

TypewriterTick(v) ==
    /\ v \in reveals
    /\ now >= v.due
    /\ IF MoreToReveal(v.index, v.text)
       THEN LET tempMessage ==
                    [v.tempMessage EXCEPT !.content = Append(@, NextChar(v.text, v.index))]
            IN  /\ streamingMessage' = <<tempMessage>>
                /\ reveals' = (reveals \ {v}) \cup
                       {[v EXCEPT !.tempMessage = tempMessage,
                                  !.index = v.index + 1,
                                  !.ticks = v.ticks + 1,
                                  !.due = v.due + TickMs]}
                /\ UNCHANGED <<messages, appVars, fetches, fetched, notified, refreshed>>
       ELSE /\ reveals' = reveals \ {v}
            /\ streamingMessage' = <<>>
            /\ messages' = Append(messages, Completed(v.tempMessage, v.action, v.details))
            /\ IF NotifiesGraph(v.action)
               THEN /\ notified' = notified \cup {[rid |-> v.rid, at |-> now]}
                    /\ HandleGraphUpdate(v.rid)
                    /\ UNCHANGED sessionId
               ELSE UNCHANGED <<appVars, fetches, fetched, notified, refreshed>>
    /\ UNCHANGED <<input, isLoading, actionType, chatCalls, graphData, snapshotFrom,
                   applied, logged, store, now, advances, rejects, failures, sent>>
    /\ UNCHANGED <<arrivals, uiVars>>

\* the setTimeout callback of handleGraphUpdate, and KnowledgeGraph's effect on
\* the changed refreshTrigger
MutRefreshTimeoutNoFetch(t) ==
    /\ t \in refreshTimers
    /\ now >= t.due
    /\ refreshTimers' = refreshTimers \ {t}
    /\ refreshKey' = refreshKey + 1
    /\ refreshed' = refreshed \cup {t.rid}
    /\ UNCHANGED <<fetches, fetched, arrivals, uiVars>>
    /\ UNCHANGED <<sessionId, chatVars, graphData, snapshotFrom, applied, logged, store,
                   now, advances, rejects, failures, sent, notified>>

RefreshTimeout(t) ==
    /\ t \in refreshTimers
    /\ now >= t.due
    /\ refreshTimers' = refreshTimers \ {t}
    /\ refreshKey' = refreshKey + 1
    /\ refreshed' = refreshed \cup {t.rid}
    /\ IF mounted
       THEN /\ fetches' = FetchGraph(fetches, fetched, sessionId, t.rid)
            /\ fetched' = fetched + 1
       ELSE UNCHANGED <<fetches, fetched>>
    /\ UNCHANGED <<arrivals, uiVars>>
    /\ UNCHANGED <<sessionId, chatVars, graphData, snapshotFrom, applied, logged, store,
                   now, advances, rejects, failures, sent, notified>>

\* fetchGraph after the await, GET /graph answered
MutGraphReplyNewestOnly(f, data) ==
    /\ f \in fetches
    /\ fetches' = fetches \ {f}
    /\ IF HasNodesAndLinks(data)
       THEN /\ arrivals' = Append(arrivals, [fetch |-> f, body |-> data])
            /\ IF \A i \in 1..Len(arrivals) : arrivals[i].fetch.fid < f.fid
               THEN graphData' = data /\ snapshotFrom' = f.cause /\ applied' = <<data>>
               ELSE UNCHANGED <<graphData, snapshotFrom, applied>>
       ELSE UNCHANGED <<graphData, snapshotFrom, applied, arrivals>>
    /\ UNCHANGED <<appVars, chatVars, fetched, logged, store, now, advances, rejects,
                   failures, sent, notified, refreshed>>
    /\ UNCHANGED uiVars

MutGraphReplyTriggersRefresh(f, data) ==
    /\ f \in fetches
    /\ fetches' = fetches \ {f}
    /\ IF HasNodesAndLinks(data)
       THEN /\ graphData' = data
            /\ snapshotFrom' = f.cause
            /\ applied' = <<data>>
            /\ arrivals' = Append(arrivals, [fetch |-> f, body |-> data])
            /\ refreshKey' = refreshKey + 1
       ELSE UNCHANGED <<graphData, snapshotFrom, applied, arrivals, refreshKey>>
    /\ UNCHANGED <<sessionId, refreshTimers, chatVars, fetched, logged, store, now, advances,
                   rejects, failures, sent, notified, refreshed>>
    /\ UNCHANGED uiVars

MutGraphReplyMerges(f, data) ==
    /\ f \in fetches
    /\ fetches' = fetches \ {f}
    /\ IF HasNodesAndLinks(data)
       THEN /\ graphData' = [nodes |-> graphData.nodes \cup data.nodes,
                             links |-> graphData.links \cup data.links]
            /\ snapshotFrom' = f.cause
            /\ applied' = <<data>>
            /\ arrivals' = Append(arrivals, [fetch |-> f, body |-> data])
       ELSE UNCHANGED <<graphData, snapshotFrom, applied, arrivals>>
    /\ UNCHANGED <<appVars, chatVars, fetched, logged, store, now, advances, rejects,
                   failures, sent, notified, refreshed>>
    /\ UNCHANGED uiVars

GraphReply(f, data) ==
    /\ f \in fetches
    /\ fetches' = fetches \ {f}
    /\ IF HasNodesAndLinks(data)
       THEN /\ graphData' = data
            /\ snapshotFrom' = f.cause
            /\ applied' = <<data>>
            /\ arrivals' = Append(arrivals, [fetch |-> f, body |-> data])
       ELSE UNCHANGED <<graphData, snapshotFrom, applied, arrivals>>
    /\ UNCHANGED <<appVars, chatVars, fetched, logged, store, now, advances, rejects,
                   failures, sent, notified, refreshed>>
    /\ UNCHANGED uiVars

\* fetchGraph after the await, GET /graph failed: console.error
MutGraphFailureClears(f) ==
    /\ f \in fetches
    /\ fetches' = fetches \ {f}
    /\ logged' = logged + 1
    /\ graphData' = [nodes |-> {}, links |-> {}]
    /\ UNCHANGED <<appVars, chatVars, snapshotFrom, applied, fetched, store, now,
                   advances, rejects, failures, sent, notified, refreshed>>
    /\ UNCHANGED <<arrivals, uiVars>>

GraphFailure(f) ==
    /\ f \in fetches
    /\ fetches' = fetches \ {f}
    /\ logged' = logged + 1
    /\ UNCHANGED <<appVars, chatVars, graphData, snapshotFrom, applied, fetched, store, now,
                   advances, rejects, failures, sent, notified, refreshed>>
    /\ UNCHANGED <<arrivals, uiVars>>

\* time passes
AdvanceTime(d) ==
    /\ advances < MaxAdvances
    /\ advances' = advances + 1
    /\ now' = now + d
    /\ UNCHANGED <<appVars, chatVars, graphVars, store, rejects, failures, sent, notified,
                   refreshed>>
    /\ UNCHANGED uiVars

Next ==
    \/ AppMount
    \/ \E v \in Inputs : SetInput(v)
    \/ \E a \in Actions : SetActionType(a)
    \/ HandleSend(NoOverride) /\ UNCHANGED event
    \/ \E call \in chatCalls, data \in ChatReplies : ChatReply(call, data)
    \/ \E call \in chatCalls, error \in ChatErrors : ChatFailure(call, error)
    \/ \E v \in reveals : TypewriterTick(v)
    \/ \E t \in refreshTimers : RefreshTimeout(t)
    \/ \E f \in fetches, data \in GraphReplies(store) : GraphReply(f, data)
    \/ \E f \in fetches : GraphFailure(f)
    \/ \E d \in TimeSteps : AdvanceTime(d)

Spec == Init /\ [][Next]_vars

\* App is torn down. Nothing is cancelled: the code has no cleanup for the
\* interval of typewriterEffect, the timeout of handleGraphUpdate or the requests
\* in flight, so their callbacks still run and still call the setters; the
\* variables then record what those calls hand to the disposed components.
Unmount ==
    /\ mounted
    /\ mounted' = FALSE
    /\ UNCHANGED <<appVars, chatVars, graphVars, store, now, advances, rejects, failures,
                   sent, notified, refreshed, event, canvas, linkCanvas>>

TeardownNext == Next \/ Unmount

TeardownSpec == Init /\ [][TeardownNext]_vars

\* nodeCanvasObject: the fill of the circle and the halo around it; lineWidth is
\* borderWidth / globalScale, kept as the pair
NodeCanvasObject(node, globalScale) ==
    /\ Len(canvas) < MaxPainted
    /\ canvas' = Append(canvas,
           [node |-> node,
            fillStyle |-> FillColor(node),
            strokeStyle |-> BorderColor(node),
            lineWidth |-> <<BorderWidth(node), globalScale>>])
    /\ UNCHANGED <<appVars, chatVars, graphVars, store, now, advances, rejects, failures,
                   sent, notified, refreshed, mounted, event, linkCanvas>>

\* linkCanvasObject: nothing is drawn for a link whose ends are not both of
\* type object; reading x of null throws a TypeError; else the name of the link
\* is drawn at the middle of the link
LinkCanvasObject(link) ==
    /\ Len(linkCanvas) < MaxPainted
    /\ LET start == link.source
           end == link.target
       IN  linkCanvas' = Append(linkCanvas,
               IF Unbound(start, end)
               THEN [link |-> link, thrown |-> "none", label |-> <<>>, at |-> <<>>]
               ELSE IF start.kind = "null" \/ end.kind = "null"
               THEN [link |-> link, thrown |-> "TypeError", label |-> <<>>, at |-> <<>>]
               ELSE [link |-> link, thrown |-> "none", label |-> <<link.name>>,
                     at |-> <<TextPos(start, end)>>])
    /\ UNCHANGED <<appVars, chatVars, graphVars, store, now, advances, rejects, failures,
                   sent, notified, refreshed, mounted, event, canvas>>

LinkNext == \E link \in GraphLinks : LinkCanvasObject(link)

LinkSpec == Init /\ [][LinkNext]_vars

RenderNext == \E node \in GraphNodes, globalScale \in GlobalScales : NodeCanvasObject(node, globalScale)

RenderSpec == Init /\ [][RenderNext]_vars

\* the same program with handleSend reached through its two call sites
KeyNext ==
    \/ AppMount
    \/ \E v \in Inputs : SetInput(v)
    \/ \E a \in Actions : SetActionType(a)
    \/ SendButton
    \/ \E e \in KeyEvents : HandleKeyPress(e)
    \/ \E call \in chatCalls, data \in ChatReplies : ChatReply(call, data)
    \/ \E call \in chatCalls, error \in ChatErrors : ChatFailure(call, error)
    \/ \E v \in reveals : TypewriterTick(v)
    \/ \E t \in refreshTimers : RefreshTimeout(t)
    \/ \E f \in fetches, data \in GraphReplies(store) : GraphReply(f, data)
    \/ \E f \in fetches : GraphFailure(f)
    \/ \E d \in TimeSteps : AdvanceTime(d)

KeySpec == Init /\ [][KeyNext]_vars

\* the interval of typewriterEffect is a timer of the browser: while a reveal is
\* running and none of its ticks is due, the clock reaches the next due tick
MinDue == CHOOSE d \in {v.due : v \in reveals} : \A v \in reveals : d <= v.due

AwaitTick ==
    /\ reveals # {}
    /\ \A v \in reveals : now < v.due
    /\ now' = MinDue
    /\ UNCHANGED <<appVars, chatVars, graphVars, store, advances, rejects, failures, sent,
                   notified, refreshed>>
    /\ UNCHANGED uiVars

\* the chat side of the program with its timer; the graph side never writes a
\* variable the reveal reads, and the action buttons set only the hint sent
\* with a request
TimedNext ==
    \/ AppMount
    \/ \E v \in Inputs : SetInput(v)
    \/ HandleSend(NoOverride) /\ UNCHANGED event
    \/ \E call \in chatCalls, data \in ChatReplies : ChatReply(call, data)
    \/ \E call \in chatCalls, error \in ChatErrors : ChatFailure(call, error)
    \/ \E v \in reveals : TypewriterTick(v)
    \/ \E d \in TimeSteps : AdvanceTime(d)
    \/ AwaitTick

\* the browser fires a due interval callback, and its clock does not stop
TimedSpec ==
    /\ Init
    /\ [][TimedNext]_vars
    /\ WF_vars(AwaitTick)
    /\ \A rid \in 1..MaxSends : WF_vars(\E v \in reveals : v.rid = rid /\ TypewriterTick(v))

\* ------------------------------------------------- what the claims speak of
IsPrefix(p, s) == Len(p) <= Len(s) /\ SubSeq(s, 1, Len(p)) = p

Last(s) == s[Len(s)]

Blank(text) == \A i \in 1..Len(text) : text[i] \in Whitespace

\* this step is a call of handleSend
SendCalled == sent' # sent \/ rejects' # rejects

\* this step is the interval callback of reveal v, and it appended a character
Revealing(v) == v \in reveals /\ \E w \in reveals' : w.rid = v.rid /\ w # v

\* this step is the interval callback of reveal v, and it ended the reveal
Finalizing(v) == v \in reveals /\ \A w \in reveals' : w.rid # v.rid

\* the reveal of v as it is after this step
After(v) == CHOOSE w \in reveals' : w.rid = v.rid

\* the refresh delay of the add_fact reply n has not elapsed
Waiting(n) == now < n.at + RefreshDelayMs

AssistantMessages ==
    {i \in 1..Len(messages) : messages[i].type = "assistant" /\ "action" \in DOMAIN messages[i]}

\* C1: at most one POST /chat request is in flight in every reachable state.
C1_OneRequestInFlight == Cardinality(chatCalls) <= 1

\* a second submit was accepted, while the reveal of the first reply was still
\* running, after an earlier call had been turned down during the first request
C1_Witness ==
    /\ Cardinality(chatCalls) = 1
    /\ sent = 2
    /\ reveals # {}
    /\ \E i \in 1..Len(rejects) : rejects[i].busy

\* C2: a call of handleSend with non-blank text while isLoading is false issues
\* exactly one request, and isLoading is true as long as a request is in flight.
C2_AcceptedSubmit ==
    /\ [][SendCalled /\ ~Blank(input) /\ ~isLoading =>
            /\ sent' = sent + 1
            /\ \E call \in chatCalls' :
                   /\ call.rid = sent'
                   /\ call.message = input
                   /\ chatCalls' = chatCalls \cup {call}
            /\ isLoading']_vars
    /\ [](chatCalls # {} => isLoading)
    /\ [][isLoading /\ ~isLoading' => chatCalls # {} /\ chatCalls' = {}]_vars

C2_Witness == sent = 1 /\ chatCalls # {} /\ isLoading /\ now > 0

\* C3: a call of handleSend while isLoading is true, or with blank text, changes
\* neither the transcript nor the requests nor input, isLoading, actionType or
\* the streaming draft.
C3_RejectedSubmitIsNoOp ==
    [][SendCalled /\ (isLoading \/ Blank(input)) =>
          UNCHANGED <<messages, chatCalls, sent, input, isLoading, actionType,
                      streamingMessage, reveals>>]_vars

\* one call was turned down while a request was in flight
C3_Witness ==
    /\ Len(rejects) > 0
    /\ rejects[1].busy
    /\ isLoading
    /\ Len(messages) = 1

\* C4: every tick that reveals a character makes the draft one character longer
\* and leaves it a prefix of the response, and the finalized message has the
\* response as its text.
C4_RevealIsLossless ==
    [][\A v \in reveals :
          /\ Revealing(v) =>
                /\ Len(After(v).tempMessage.content) = Len(v.tempMessage.content) + 1
                /\ IsPrefix(v.tempMessage.content, After(v).tempMessage.content)
                /\ IsPrefix(After(v).tempMessage.content, v.text)
                /\ streamingMessage' = <<After(v).tempMessage>>
          /\ Finalizing(v) =>
                /\ Len(messages') = Len(messages) + 1
                /\ Last(messages').content = v.text
                /\ Last(messages').id = v.tempMessage.id]_vars

\* a response of two characters has been revealed and finalized
C4_Witness ==
    \E i \in AssistantMessages : Len(messages[i].content) = 2 /\ reveals = {}

\* C5 as stated: the reveal of a response of length N is finalized by the N-th
\* interval callback.
C5_FinalizedOnNthTick ==
    [][\A v \in reveals : Finalizing(v) => v.ticks + 1 = Len(v.text)]_vars

\* C5 as amended: the first N callbacks reveal one character each, so that the
\* draft is complete after N of them, and callback N + 1 finalizes it.
C5_FinalizedOnTickAfterLast ==
    /\ [][\A v \in reveals :
             /\ Finalizing(v) =>
                   /\ v.ticks + 1 = Len(v.text) + 1
                   /\ streamingMessage' = <<>>
                   /\ Len(messages') = Len(messages) + 1
             /\ Revealing(v) =>
                   /\ After(v).ticks = v.ticks + 1
                   /\ Len(messages') = Len(messages)]_vars
    /\ [](\A v \in reveals :
             /\ v.ticks <= Len(v.text)
             /\ Len(v.tempMessage.content) = v.ticks)

\* a reveal of two characters has had its two revealing callbacks
C5_Witness ==
    \E v \in reveals : Len(v.text) = 2 /\ v.ticks = 2 /\ streamingMessage # <<>>

ErrorMessages ==
    {i \in 1..Len(messages) : "isError" \in DOMAIN messages[i] /\ messages[i].isError}

UserMessages == {i \in 1..Len(messages) : messages[i].type = "user"}

\* the replies a refresh is scheduled, under way or done for
RefreshesOf(rid) ==
    Cardinality({t \in refreshTimers : t.rid = rid}) + (IF rid \in refreshed THEN 1 ELSE 0)

\* C6: until 500 ms have passed since onGraphUpdate was called for an add_fact
\* reply, the refresh is scheduled and not run: refreshKey has not been
\* incremented for it and no fetch caused by it has been issued.
C6_RefreshWaitsForDelay ==
    /\ refreshKey = Cardinality(refreshed)
    /\ \A n \in notified :
          Waiting(n) =>
             /\ n.rid \notin refreshed
             /\ \A f \in fetches : f.cause # n.rid
             /\ \E t \in refreshTimers : t.rid = n.rid /\ t.due = n.at + RefreshDelayMs

\* a refresh has been waiting for some time, less than the delay
C6_Witness ==
    \E n \in notified :
        /\ Waiting(n)
        /\ now > n.at
        /\ \E t \in refreshTimers : t.rid = n.rid
        /\ refreshKey = 0

\* C7 as stated: from an add_fact reply until its refresh delay has elapsed the
\* snapshot does not contain the write of that reply.
C7_SnapshotIsPreMutation ==
    /\ \A v \in reveals : v.action = "add_fact" => v.rid \notin graphData.nodes
    /\ \A n \in notified : Waiting(n) => n.rid \notin graphData.nodes

\* C7 as amended: in that window the snapshot never comes from the refresh of
\* that reply; a snapshot that contains the write comes from the fetch at
\* mount or from the refresh of another reply, whose own delay has elapsed.
C7_NoOwnRefreshInWindow ==
    /\ \A v \in reveals : snapshotFrom # v.rid
    /\ \A n \in notified :
          Waiting(n) =>
             /\ snapshotFrom # n.rid
             /\ n.rid \in graphData.nodes =>
                   \/ snapshotFrom = 0
                   \/ \E m \in notified : m.rid = snapshotFrom /\ m.rid # n.rid /\ ~Waiting(m)

\* the snapshot already shows a write whose refresh is still waiting
C7_Witness ==
    \E n \in notified :
        /\ Waiting(n)
        /\ n.rid \in graphData.nodes
        /\ \E t \in refreshTimers : t.rid = n.rid

\* C8 as stated: the reply to a submit sent with action ask_question is
\* finalized with action ask_question and schedules no refresh.
C8_AskSubmitGetsAskReply ==
    [][\A v \in reveals :
          Finalizing(v) /\ v.action_type = "ask_question" =>
             /\ Last(messages').action = "ask_question"
             /\ UNCHANGED <<refreshTimers, notified>>]_vars

\* C8 as amended: a reply whose own action is ask_question is finalized with
\* that action and schedules no refresh; every refresh scheduled, under way or
\* done belongs to a request the server answered with add_fact.
C8_AskReplySchedulesNothing ==
    /\ [][\A v \in reveals :
             Finalizing(v) /\ v.action = "ask_question" =>
                /\ Len(messages') = Len(messages) + 1
                /\ Last(messages').action = "ask_question"
                /\ UNCHANGED <<refreshTimers, refreshKey, notified, refreshed, fetches>>]_vars
    /\ [](\A r \in refreshed \cup {t.rid : t \in refreshTimers} \cup {n.rid : n \in notified} :
             r \in store)

\* a reply with action ask_question is in the transcript and nothing is scheduled
C8_Witness ==
    /\ \E i \in AssistantMessages : messages[i].action = "ask_question"
    /\ reveals = {}
    /\ chatCalls = {}
    /\ refreshTimers = {}
    /\ refreshKey = 0
    /\ now >= RefreshDelayMs

C10_FailureAppendsOneError ==
    /\ [][\A call \in chatCalls :
             call.rid \in failures' \ failures =>
                /\ messages' = Append(messages, Last(messages'))
                /\ Last(messages').isError = TRUE
                /\ "action" \notin DOMAIN Last(messages')
                /\ "details" \notin DOMAIN Last(messages')
                /\ ~isLoading'
                /\ UNCHANGED <<streamingMessage, reveals, refreshTimers, refreshKey,
                               notified, fetches>>]_vars
    /\ [](Cardinality(ErrorMessages) = Cardinality(failures))
    /\ [](\A i \in ErrorMessages : DOMAIN messages[i] = {"id", "type", "content", "isError"})

\* a request has failed: the transcript ends with the error message
C10_Witness ==
    /\ failures = {1}
    /\ Len(messages) = 2
    /\ 2 \in ErrorMessages
    /\ ~isLoading
    /\ streamingMessage = <<>>

\* C11: in every reachable state at most one typewriter reveal is in progress.
C11_OneRevealAtATime == Cardinality(reveals) <= 1

\* C12: every step leaves the transcript as it was or appends one message at
\* its end; no entry is removed, moved or edited.
C12_TranscriptAppendOnly ==
    [][\/ messages' = messages
       \/ /\ Len(messages') = Len(messages) + 1
          /\ SubSeq(messages', 1, Len(messages)) = messages]_vars

\* two submits, one answered and revealed to its end, the other failed
C12_Witness ==
    /\ Len(messages) = 4
    /\ Cardinality(UserMessages) = 2
    /\ Cardinality(AssistantMessages) = 1
    /\ Cardinality(ErrorMessages) = 1

\* C13: while the reveal of a draft runs, the streaming draft shown is that
\* draft: a step changes it only by the next character of that draft, or to
\* none when that draft is finalized.
C13_RevealNotInterrupted ==
    /\ [](\A v \in reveals : streamingMessage = <<v.tempMessage>>)
    /\ [][\A v \in reveals :
             streamingMessage = <<v.tempMessage>> =>
                \/ streamingMessage' = streamingMessage
                \/ Revealing(v) /\ streamingMessage' = <<After(v).tempMessage>>
                \/ Finalizing(v) /\ streamingMessage' = <<>>]_vars

\* C14: while a request is in flight its user message is the last entry of the
\* transcript, input is empty and isLoading is true; when its reply (assistant
\* or error message) is appended, its user message is already there.
C14_UserMessageLastWhilePending ==
    /\ [](\A call \in chatCalls :
             /\ messages # <<>>
             /\ Last(messages) \in {UserMessage(t, call.message) : t \in 0..now}
             /\ input = <<>>
             /\ isLoading)
    /\ [][/\ \A v \in reveals : Finalizing(v) => Cardinality(UserMessages) >= v.rid
          /\ \A call \in chatCalls :
                call.rid \in failures' \ failures => Cardinality(UserMessages) >= call.rid]_vars

\* C15: a request that resolves, by a reply or by a failure, leaves isLoading
\* false, isLoading is false whenever no request is in flight, and after a
\* resolved request a call of handleSend with non-blank text is accepted.
C15_BusyEndsWithRequest ==
    /\ [][\A call \in chatCalls : call \notin chatCalls' => ~isLoading']_vars
    /\ [](chatCalls = {} => ~isLoading)
    /\ [][SendCalled /\ sent > 0 /\ chatCalls = {} /\ ~Blank(input) =>
             /\ rejects' = rejects
             /\ \E call \in chatCalls' : call.rid = sent + 1]_vars

\* the first request failed and a second submit has been accepted
C15_Witness ==
    /\ failures = {1}
    /\ sent = 2
    /\ \E call \in chatCalls : call.rid = 2
    /\ isLoading

\* C16: the request of an accepted submit carries the text, the selected
\* action, the session id, and one history entry per message the transcript
\* had before the submit, in order: role user for a user message and role
\* model for every other message, with the content of that message.
C16_RequestCarriesTranscript ==
    [][sent' = sent + 1 =>
          \E call \in chatCalls' \ chatCalls :
             /\ call.rid = sent'
             /\ call.message = input
             /\ call.action_type = actionType
             /\ call.session_id = sessionId
             /\ call.session_id \in SessionIds
             /\ DOMAIN call.history = 1..Len(messages)
             /\ \A i \in 1..Len(messages) :
                   /\ call.history[i].content = messages[i].content
                   /\ i \in UserMessages => call.history[i].role = "user"
                   /\ i \notin UserMessages => call.history[i].role = "model"]_vars

\* a request sent as add_fact whose history holds a user and a model entry
C16_Witness ==
    \E call \in chatCalls :
        /\ call.action_type = "add_fact"
        /\ Len(call.history) = 2
        /\ call.history[1].role = "user"
        /\ call.history[2].role = "model"
        /\ call.message # <<>>

\* C17: no two entries of the transcript have the same id.
C17_UniqueIds ==
    \A i, j \in 1..Len(messages) : i # j => messages[i].id # messages[j].id

\* C18: there are as many POST /chat requests as user messages, and neither a
\* failed POST /chat nor a failed GET /graph issues a request.
C18_NoRetry ==
    /\ [](Cardinality(UserMessages) = sent)
    /\ []({call.rid : call \in chatCalls} \cup {v.rid : v \in reveals} \cup failures
              \subseteq 1..sent)
    /\ [](Cardinality(chatCalls) + Cardinality(reveals) + Cardinality(failures)
              + Cardinality(AssistantMessages) = Cardinality(UserMessages))
    /\ [][failures' # failures =>
             /\ chatCalls' \subseteq chatCalls
             /\ UNCHANGED <<sent, fetches, fetched>>]_vars
    /\ [][logged' # logged =>
             /\ fetches' \subseteq fetches
             /\ UNCHANGED <<fetched, chatCalls, sent>>]_vars

\* a request and a fetch have failed and nothing is in flight
C18_Witness ==
    /\ failures = {1}
    /\ logged = 1
    /\ sent = 1
    /\ fetched = 1
    /\ chatCalls = {}
    /\ fetches = {}

\* C19: a failed GET /graph changes neither the snapshot nor the transcript,
\* isLoading, the streaming draft or refreshKey.
C19_FailedFetchKeepsSnapshot ==
    [][logged' # logged =>
          UNCHANGED <<graphData, snapshotFrom, messages, isLoading, streamingMessage,
                      refreshKey, input, reveals, refreshTimers>>]_vars

\* the fetch of a refresh failed and the snapshot of the fetch at mount, which
\* holds a node, is still there
C19_Witness ==
    /\ logged = 1
    /\ fetched = 2
    /\ fetches = {}
    /\ refreshed # {}
    /\ snapshotFrom = 0
    /\ graphData.nodes # {}

\* C20: the snapshot is the body of the last GET /graph response taken over,
\* nodes and links both, and the initial empty graph before the first one.
C20_SnapshotIsLastResponse ==
    /\ DOMAIN graphData = {"nodes", "links"}
    /\ applied = <<>> => graphData = [nodes |-> {}, links |-> {}]
    /\ applied # <<>> =>
          /\ graphData.nodes = applied[1].nodes
          /\ graphData.links = applied[1].links

\* the response to the second refresh replaced the snapshot and holds less
\* than the store does
C20_Witness ==
    /\ applied # <<>>
    /\ snapshotFrom = 2
    /\ refreshed = {1, 2}
    /\ graphData.nodes = {2}
    /\ store = {1, 2}

\* C21: issuing a fetch cancels none of those in flight, and the snapshot is
\* the body of the response that arrived last with nodes and links, whatever
\* the order in which the fetches were issued.
C21_LastArrivalWins ==
    /\ [][fetched' # fetched => fetches \subseteq fetches']_vars
    /\ [][\A f \in fetches :
             f \notin fetches' => fetches' = fetches \ {f} /\ fetched' = fetched]_vars
    /\ [](arrivals # <<>> =>
             /\ graphData = Last(arrivals).body
             /\ snapshotFrom = Last(arrivals).fetch.cause)

\* the response to the fetch at mount arrived after the response to a refresh
\* issued later, and is the snapshot now that nothing is in flight
C21_Witness ==
    /\ fetches = {}
    /\ Len(arrivals) = 2
    /\ arrivals[1].fetch.fid > arrivals[2].fetch.fid
    /\ arrivals[1].body # arrivals[2].body
    /\ graphData = arrivals[2].body

\* C22: every increment of refreshKey and the setting of sessionId issue
\* exactly one GET /graph with the current session id in the same step, and the
\* fetch at mount is the first.
C22_RefreshOnTrigger ==
    /\ [][refreshKey' # refreshKey \/ sessionId' # sessionId =>
             /\ fetched' = fetched + 1
             /\ \E f \in fetches' :
                   /\ f.fid = fetched'
                   /\ f.session_id = sessionId'
                   /\ f \notin fetches
                   /\ fetches' = fetches \cup {f}]_vars
    /\ [][refreshKey' # refreshKey => refreshKey' = refreshKey + 1]_vars
    /\ [][sessionId' # sessionId => fetched = 0 /\ refreshKey = 0]_vars
    /\ [](sessionId # NoSession => fetched >= refreshKey + 1)

\* the fetch at mount and the fetches of two refreshes are all in flight
C22_Witness ==
    /\ refreshKey = 2
    /\ fetched = 3
    /\ {f.cause : f \in fetches} = {0, 1, 2}

C24_SessionMintedOnce ==
    /\ [][sessionId # NoSession => sessionId' = sessionId]_vars
    /\ [](sessionId = NoSession =>
             sent = 0 /\ fetched = 0 /\ chatCalls = {} /\ fetches = {} /\ messages = <<>>)
    /\ [](\A call \in chatCalls : call.session_id = sessionId /\ sessionId \in SessionIds)
    /\ [](\A f \in fetches : f.session_id = sessionId /\ sessionId \in SessionIds)
    /\ [](\A i \in 1..Len(arrivals) : arrivals[i].fetch.session_id = sessionId)

\* a request and the fetches of mount and of a refresh are in flight
C24_Witness ==
    /\ sessionId \in SessionIds
    /\ chatCalls # {}
    /\ Cardinality(fetches) = 2
    /\ sent = 2

\* this step is handleKeyPress called with the key event e
KeyStep(e) == event' = e /\ (event # e \/ SendCalled)

\* what a submit does to the transcript and the requests
SubmitEffect ==
    IF Blank(input) \/ isLoading
    THEN UNCHANGED <<messages, chatCalls, sent, input, isLoading>>
    ELSE /\ sent' = sent + 1
         /\ messages' = Append(messages, Last(messages'))
         /\ Last(messages').type = "user"
         /\ Last(messages').content = input
         /\ input' = <<>>
         /\ isLoading'
         /\ \E call \in chatCalls' :
               /\ chatCalls' = chatCalls \cup {call}
               /\ call.rid = sent'
               /\ call.message = input
               /\ call.action_type = actionType

NoSubmit == UNCHANGED <<messages, chatCalls, sent, rejects, input, isLoading>>

\* C25 as stated: Enter with no modifier held does what the send button does,
\* and Enter with any modifier held submits nothing.
C25_ModifierEnterNeverSubmits ==
    [][/\ event' = Click /\ SendCalled => SubmitEffect
       /\ \A e \in KeyEvents :
             KeyStep(e) /\ e.key = "Enter" =>
                IF ~e.shiftKey /\ ~e.ctrlKey THEN SubmitEffect ELSE NoSubmit]_vars

\* C25 as amended: Enter without Shift does what the send button does, whatever
\* other modifier is held; Enter with Shift, and every other key, submits
\* nothing.
C25_ShiftEnterNeverSubmits ==
    [][/\ event' = Click /\ SendCalled => SubmitEffect /\ ~Blank(input)
       /\ \A e \in KeyEvents :
             KeyStep(e) =>
                IF e.key = "Enter" /\ ~e.shiftKey THEN SubmitEffect ELSE NoSubmit]_vars

\* after one exchange Enter was pressed with Shift on a non-blank text: nothing
\* was sent and the text is still in the textarea
C25_Witness ==
    /\ event = [key |-> "Enter", shiftKey |-> TRUE, ctrlKey |-> FALSE]
    /\ ~Blank(input)
    /\ sent = 1
    /\ Len(messages) = 2
    /\ chatCalls = {}

\* C26: once the components are torn down no callback writes their state or
\* notifies the graph engine: the transcript, the streaming draft, isLoading,
\* the snapshot, refreshKey and the scheduled refreshes stay as they were.
C26_NoWriteAfterTeardown ==
    [][~mounted =>
          UNCHANGED <<messages, streamingMessage, isLoading, graphData, refreshKey,
                      refreshTimers, notified>>]_vars

AddFactMessages == {i \in AssistantMessages : messages[i].action = "add_fact"}

\* C27: onGraphUpdate is called only in the step that ends the reveal of an
\* add_fact reply, whose draft then holds the whole response and is appended
\* to the transcript; so every reply a refresh is scheduled or run for is in
\* the transcript, and none is still being revealed or awaited.
C27_NotifiedAtFinalization ==
    /\ [][notified' # notified \/ ~(refreshTimers' \subseteq refreshTimers) =>
             \E v \in reveals :
                /\ Finalizing(v)
                /\ v.action = "add_fact"
                /\ v.tempMessage.content = v.text
                /\ messages' = Append(messages, Last(messages'))
                /\ Last(messages').id = v.tempMessage.id
                /\ Last(messages').content = v.text
                /\ Last(messages').action = "add_fact"
                /\ notified' = notified \cup {[rid |-> v.rid, at |-> now]}
                /\ refreshKey' = refreshKey]_vars
    /\ [](\A r \in {n.rid : n \in notified} \cup {t.rid : t \in refreshTimers} \cup refreshed :
             /\ \A v \in reveals : v.rid # r
             /\ \A call \in chatCalls : call.rid # r
             /\ r \notin failures)
    /\ [](Cardinality(AddFactMessages) = Cardinality({n.rid : n \in notified}))
    /\ [](refreshed \subseteq {n.rid : n \in notified})

\* the reply is in the transcript and its refresh has run
C27_Witness ==
    /\ refreshed = {1}
    /\ refreshKey = 1
    /\ AddFactMessages = {2}
    /\ Len(messages[2].content) = 2
    /\ reveals = {}

\* the failure carries a detail reported by the server
CarriesDetail(error) == error.detail # NoDetail /\ Len(error.detail[1]) > 0

\* C28: the error message appended for a failed request reads "Error: "
\* followed by the server's detail when the failure carries one, and by the
\* transport error message when it does not.
C28_ErrorTextEmbedsDetail ==
    /\ [][\A call \in chatCalls, error \in ChatErrors :
             ChatFailure(call, error) =>
                /\ Len(messages') = Len(messages) + 1
                /\ SubSeq(Last(messages').content, 1, 3) = <<"E", ":", " ">>
                /\ CarriesDetail(error) =>
                      SubSeq(Last(messages').content, 4, Len(Last(messages').content))
                          = error.detail[1]
                /\ ~CarriesDetail(error) =>
                      SubSeq(Last(messages').content, 4, Len(Last(messages').content))
                          = error.message]_vars
    /\ [](\A i \in ErrorMessages :
             \E error \in ChatErrors :
                messages[i].content = <<"E", ":", " ">> \o
                    (IF CarriesDetail(error) THEN error.detail[1] ELSE error.message))

\* one request failed with a detail and one without
C28_Witness ==
    /\ Cardinality(ErrorMessages) = 2
    /\ \E i \in ErrorMessages : messages[i].content = <<"E", ":", " ", "d">>
    /\ \E i \in ErrorMessages : messages[i].content = <<"E", ":", " ", "n">>

\* C29: two nodes of the same group painted at the same zoom, one with
\* isGlobal true and one with isGlobal false, get halos of different color and
\* different width, for each group of the palette, for a group outside it and
\* for a missing group; a node is filled with the color of its group, and with
\* the color of Entity when its group is outside the palette or missing.
C29_HaloAndFill ==
    /\ \A i, j \in 1..Len(canvas) :
          /\ canvas[i].node.group = canvas[j].node.group
          /\ canvas[i].lineWidth[2] = canvas[j].lineWidth[2]
          /\ canvas[i].node.isGlobal = <<TRUE>>
          /\ canvas[j].node.isGlobal = <<FALSE>>
          => /\ canvas[i].strokeStyle # canvas[j].strokeStyle
             /\ canvas[i].lineWidth[1] # canvas[j].lineWidth[1]
             /\ canvas[i].fillStyle = canvas[j].fillStyle
    /\ \A i \in 1..Len(canvas) :
          LET group == canvas[i].node.group
          IN  /\ canvas[i].fillStyle \in {TYPE_COLORS[g] : g \in Groups}
              /\ group # <<>> /\ group[1] \in Groups => canvas[i].fillStyle = TYPE_COLORS[group[1]]
              /\ group = <<>> \/ group[1] \notin Groups => canvas[i].fillStyle = "#95a5a6"

\* a global and a session node of a group outside the palette have been painted
C29_Witness ==
    /\ Len(canvas) = 2
    /\ canvas[1].node = [group |-> <<"Event">>, isGlobal |-> <<TRUE>>]
    /\ canvas[2].node = [group |-> <<"Event">>, isGlobal |-> <<FALSE>>]
    /\ canvas[1].lineWidth[2] = canvas[2].lineWidth[2]

\* C30: the step that ends a reveal schedules a refresh exactly when the server
\* answered that request with add_fact, whatever action_type the request was
\* sent with, and the finalized message carries the server's action.
C30_RefreshFollowsResponseAction ==
    [][\A v \in reveals :
          Finalizing(v) =>
             /\ (\E t \in refreshTimers' \ refreshTimers : t.rid = v.rid) <=> v.rid \in store
             /\ v.rid \notin store => refreshTimers' = refreshTimers /\ notified' = notified
             /\ Last(messages').action =
                   (IF v.rid \in store THEN "add_fact" ELSE "ask_question")]_vars

\* the second request went out as ask_question, the server answered add_fact,
\* and the refresh for it is scheduled
C30_Witness ==
    /\ sent = 2
    /\ actionType = "ask_question"
    /\ 2 \in store
    /\ \E t \in refreshTimers : t.rid = 2
    /\ \E i \in AddFactMessages : i = Len(messages)

\* C31: refreshKey is a counter: it starts at 0 and every change of it is an
\* increment by exactly 1; in every state it is at most the number of finalized
\* add_fact replies in the transcript, and when no scheduled refresh is left
\* to run it equals that number.
C31_RefreshKeyCounts ==
    /\ refreshKey = 0
    /\ [][refreshKey' = refreshKey \/ refreshKey' = refreshKey + 1]_vars
    /\ [](refreshKey <= Cardinality(AddFactMessages))
    /\ [](refreshTimers = {} => refreshKey = Cardinality(AddFactMessages))

\* two add_fact replies were finalized and both delayed increments have run
C31_Witness ==
    /\ Cardinality(AddFactMessages) = 2
    /\ refreshTimers = {}
    /\ refreshKey = 2

\* the replies in the transcript: finalized assistant messages and error messages
ReplyMessages == {i \in 1..Len(messages) : messages[i].type = "assistant"}

\* C32: every accepted submit gets exactly one reply, a finalized assistant
\* message or an error message: in every state the transcript holds one user
\* message per accepted submit, one error message per failed request and at
\* most as many replies as user messages, and when no request is in flight
\* and no reveal is running it holds as many replies as user messages.
C32_OneReplyPerSubmit ==
    /\ Cardinality(UserMessages) = sent
    /\ Cardinality(ErrorMessages) = Cardinality(failures)
    /\ ReplyMessages = AssistantMessages \cup ErrorMessages
    /\ AssistantMessages \cap ErrorMessages = {}
    /\ Cardinality(ReplyMessages) <= Cardinality(UserMessages)
    /\ Cardinality(ReplyMessages) + Cardinality(chatCalls) + Cardinality(reveals)
          = Cardinality(UserMessages)
    /\ chatCalls = {} /\ reveals = {} =>
          Cardinality(ReplyMessages) = Cardinality(UserMessages)

\* two submits were accepted; one was answered and revealed, the other failed
C32_Witness ==
    /\ sent = 2
    /\ chatCalls = {}
    /\ reveals = {}
    /\ Cardinality(AssistantMessages) = 1
    /\ Cardinality(ErrorMessages) = 1
    /\ Len(messages) = 4

\* the reveal of reply rid is running
Running(rid) == \E v \in reveals : v.rid = rid

\* C33: every reveal terminates. With the interval firing fairly, a running
\* reveal eventually is no longer running; a reveal stops running only in the
\* step that appends its whole text to the transcript, and it never runs
\* again afterwards; when no reveal is running the streaming draft is none.
C33_RevealTerminates ==
    /\ \A rid \in 1..MaxSends : Running(rid) ~> ~Running(rid)
    /\ [][\A v \in reveals :
             ~(\E w \in reveals' : w.rid = v.rid) =>
                /\ messages' = Append(messages, Last(messages'))
                /\ Last(messages').content = v.text
                /\ Last(messages').id = v.tempMessage.id
                /\ ~Last(messages').isStreaming]_vars
    /\ [][\A v \in reveals' :
             Running(v.rid) \/ (v.ticks = 0 /\ \E call \in chatCalls : call.rid = v.rid)]_vars
    /\ [](\A call \in chatCalls : call.rid = sent)
    /\ [](\A v \in reveals : v.rid <= sent)
    /\ [](reveals = {} => streamingMessage = <<>>)

\* both replies have been revealed to the end and appended; nothing is running
C33_Witness ==
    /\ sent = 2
    /\ reveals = {}
    /\ chatCalls = {}
    /\ Cardinality(AssistantMessages) = 2
    /\ \E i \in AssistantMessages : Len(messages[i].content) = 2
    /\ streamingMessage = <<>>

\* C34: isLoading is true exactly while a POST /chat request is in flight. The
\* step in which a response arrives starts the reveal and ends isLoading, no
\* tick of a reveal changes isLoading, and a call of handleSend with a
\* non-blank input made while a reveal is running and no request is in flight
\* is accepted.
C34_BusyIffRequestInFlight ==
    /\ [](isLoading <=> chatCalls # {})
    /\ [](reveals # {} /\ chatCalls = {} => ~isLoading)
    /\ [][\A v \in reveals : Revealing(v) \/ Finalizing(v) => isLoading' = isLoading]_vars
    /\ [][SendCalled /\ reveals # {} /\ chatCalls = {} /\ ~Blank(input) =>
             /\ sent' = sent + 1
             /\ rejects' = rejects
             /\ isLoading'
             /\ reveals' = reveals]_vars

\* the second request is in flight while the first reply is half revealed
C34_Witness ==
    /\ isLoading
    /\ \E call \in chatCalls : call.rid = 2
    /\ \E v \in reveals : v.rid = 1 /\ v.index = 1 /\ Len(v.text) = 2

\* the requests that have no reply in the transcript yet
Unanswered == {call.rid : call \in chatCalls} \cup {v.rid : v \in reveals}

\* C35: replies are appended in the order of their requests: the step that
\* appends the reply to a request, finalized or error, finds no earlier
\* request unanswered, and the step that appends the user message of a
\* request finds no request unanswered at all.
C35_RepliesInRequestOrder ==
    [][/\ \A v \in reveals :
             Finalizing(v) => \A r \in Unanswered : r >= v.rid
       /\ \A call \in chatCalls :
             call.rid \in failures' \ failures => \A r \in Unanswered : r >= call.rid
       /\ sent' = sent + 1 => Unanswered = {}]_vars

\* C36: the history sent with a request holds the reply to every earlier
\* request (all of them have been answered when a request is issued, since
\* at most one is in flight): it has one user entry and one model entry per
\* earlier request, alternating.
C36_HistoryHoldsEarlierReplies ==
    [][sent' = sent + 1 =>
          \A call \in chatCalls' \ chatCalls :
             /\ Len(call.history) = 2 * sent
             /\ \A i \in 1..Len(call.history) :
                   call.history[i].role = (IF i % 2 = 1 THEN "user" ELSE "model")]_vars

\* C37: message ids are monotonic in transcript order: of two entries of the
\* transcript, the earlier one has an id not greater than the later one's.
C37_IdsMonotonic ==
    \A i, j \in 1..Len(messages) : i < j => messages[i].id <= messages[j].id

\* C38: a GET /graph response that lacks nodes or lacks links leaves the
\* snapshot as it was, as a failed fetch does, and a response that holds both,
\* even both empty, becomes the snapshot.
C38_MalformedResponseIgnored ==
    /\ [][\A f \in fetches, data \in GraphReplies(store) :
             GraphReply(f, data) =>
                IF "nodes" \in DOMAIN data /\ "links" \in DOMAIN data
                THEN graphData' = data /\ arrivals' = Append(arrivals, [fetch |-> f, body |-> data])
                ELSE UNCHANGED <<graphData, snapshotFrom, applied, arrivals, logged>>]_vars
    /\ [](DOMAIN graphData = {"nodes", "links"})
    /\ [](\A i \in 1..Len(arrivals) : DOMAIN arrivals[i].body = {"nodes", "links"})
    /\ [](arrivals # <<>> => graphData = Last(arrivals).body)

\* of three responses the first filled the snapshot, one lacked a field
\* and was ignored, and the last one, with no nodes and no links, emptied it
C38_Witness ==
    /\ fetched = 3
    /\ fetches = {}
    /\ logged = 0
    /\ Len(arrivals) = 2
    /\ arrivals[1].body.nodes # {}
    /\ arrivals[2].body = [nodes |-> {}, links |-> {}]
    /\ graphData = [nodes |-> {}, links |-> {}]

\* an end of the link is not a node of the snapshot
Dangling(link) == link.source.kind # "node" \/ link.target.kind # "node"

\* C39: the renderer tolerates a dangling link: painting a link one of whose
\* ends is not a node of the snapshot throws nothing and draws no label, and
\* a link with both ends bound gets its name drawn.
C39_DanglingLinkSkipped ==
    \A i \in 1..Len(linkCanvas) :
       /\ linkCanvas[i].thrown = "none"
       /\ Dangling(linkCanvas[i].link) => linkCanvas[i].label = <<>>
       /\ ~Dangling(linkCanvas[i].link) => linkCanvas[i].label = <<linkCanvas[i].link.name>>

\* the same holds of the links whose unbound end is a node id or is missing
UnboundIdSkipped ==
    \A i \in 1..Len(linkCanvas) :
       LET link == linkCanvas[i].link
       IN  /\ link.source.kind # "null" /\ link.target.kind # "null" =>
                /\ linkCanvas[i].thrown = "none"
                /\ Dangling(link) => linkCanvas[i].label = <<>>
                /\ ~Dangling(link) => linkCanvas[i].label = <<link.name>>

====
